---- MODULE Spec2Model ----
(***************************************************************************)
(* A model of the Facebook media downloaders src/image.js and src/video.js: *)
(* the batch runner (processFacebookImages / processFacebookUrls), the      *)
(* per-item pipeline (validity check, transfer, timeout timer, file write)  *)
(* as callbacks of a single-threaded event loop, and the image dimension    *)
(* sniffer getImageDimensions as a function of a byte buffer.               *)
(***************************************************************************)
EXTENDS Integers, Sequences, FiniteSets, TLC

VARIABLES
  pipeline,    \* "image" (src/image.js), "video" (src/video.js), "sniff" (no run)
  urls,        \* the input list handed to processFacebookImages / processFacebookUrls
  batchSize,   \* CONFIG.BATCH_SIZE
  pc,          \* where the runner is
  i,           \* the batch loop's variable i
  results,     \* the runner's results array
  item,        \* per input position (1-based): the state of its processing
  batches,     \* history: the <<start, length>> of every batch issued, in order
  faultsLeft,  \* how many more failures the environment may inject in this run
  remote,      \* which answers the remote server may give in this run: "plain", "full"
  buffer,      \* the byte buffer handed to getImageDimensions
  dimensions,  \* what getImageDimensions returned for buffer ("unset" before)
  pauses,      \* history: the value of i at each pause between batches, in order
  summary,     \* the summary the run returns ("unset" before)
  report,      \* main's JSON report: its state (none, writing, written, failed) and data
  exitCode     \* the status the process was ended with (undefined while it runs)

vars == <<pipeline, urls, batchSize, pc, i, results, item, batches, faultsLeft,
          remote, buffer, dimensions, pauses, summary, report, exitCode>>


(***************************************************************************)
(* Byte buffers.  A buffer is its leading bytes (head) followed by pad zero *)
(* bytes, so that a payload of 10000 bytes and more stays a small value.    *)
(***************************************************************************)
Buf(head, pad) == [head |-> head, pad |-> pad]

BufLength(b) == Len(b.head) + b.pad

\* buffer[k] of JavaScript, k 0-based: undefined outside the buffer.
Undefined == -1

ByteAt(b, k) ==
  IF k < 0 \/ k >= BufLength(b) THEN Undefined
  ELSE IF k < Len(b.head) THEN b.head[k + 1] ELSE 0

\* What a statement yields: a returned value, a thrown error, or control
\* falling through to the next statement.
Return(v) == [kind |-> "return", value |-> v]
Throw(e) == [kind |-> "throw", value |-> e]
FallThrough == [kind |-> "next", value |-> "none"]

RangeError == [code |-> "ERR_OUT_OF_RANGE"]

\* null, as a value that compares with a dimensions record
null == [null |-> TRUE]

readUInt16BE(b, off) ==
  IF off < 0 \/ off + 2 > BufLength(b) THEN Throw(RangeError)
  ELSE Return(ByteAt(b, off) * 256 + ByteAt(b, off + 1))

\* A JavaScript number too wide for the checker's integers: the number
\* hi * 65536 + lo, with 0 <= lo < 65536.  It is unsigned when hi >= 0.
Wide(hi, lo) == [hi |-> hi, lo |-> lo]

\* the bytes put together by hand, a byte past the end counting as 0: no
\* range check, no error
readUInt32BEUnchecked(b, off) ==
  LET byte(k) == IF ByteAt(b, k) = Undefined THEN 0 ELSE ByteAt(b, k) IN
  Return(Wide(byte(off) * 256 + byte(off + 1), byte(off + 2) * 256 + byte(off + 3)))

\* the signed read, readInt32BE: values with the top bit set come out negative
readInt32BE(b, off) ==
  IF off < 0 \/ off + 4 > BufLength(b) THEN Throw(RangeError)
  ELSE LET hi == ByteAt(b, off) * 256 + ByteAt(b, off + 1)
           lo == ByteAt(b, off + 2) * 256 + ByteAt(b, off + 3)
       IN Return(Wide(IF hi >= 32768 THEN hi - 65536 ELSE hi, lo))

readUInt32BE(b, off) ==
  IF off < 0 \/ off + 4 > BufLength(b) THEN Throw(RangeError)
  ELSE Return(Wide(ByteAt(b, off) * 256 + ByteAt(b, off + 1),
                   ByteAt(b, off + 2) * 256 + ByteAt(b, off + 3)))

PNG_SIGNATURE == <<137, 80, 78, 71, 13, 10, 26, 10>>

\* buffer.subarray(0, 8).equals(Buffer.from([...signature]))
HasPngSignature(b) ==
  /\ BufLength(b) >= 8
  /\ \A k \in 0..7 : ByteAt(b, k) = PNG_SIGNATURE[k + 1]

\* buffer[0] === 0xFF && buffer[1] === 0xD8
HasJpegSignature(b) == ByteAt(b, 0) = 255 /\ ByteAt(b, 1) = 216

\* a marker test that takes every marker C0..CF for a frame header
IsSofMarkerC0toCF(marker) == marker >= 192 /\ marker <= 207

\* marker >= 0xC0 && marker <= 0xC3
IsSofMarker(marker) == marker >= 192 /\ marker <= 195

(***************************************************************************)
(* The JPEG loop of getImageDimensions, from the loop variable's value      *)
(* offset.  Past the head every byte is a zero: the loop then only          *)
(* increments offset up to the loop bound and exits.                        *)
(***************************************************************************)
\* the loop test without its margin: offset < buffer.length
InLoopToEnd(b, offset) == offset < BufLength(b)

\* the loop test: offset < buffer.length - 8
InLoop(b, offset) == offset < BufLength(b) - 8

RECURSIVE JpegScan(_, _)
JpegScan(b, offset) ==
  IF ~InLoop(b, offset) THEN FallThrough
  ELSE IF offset >= Len(b.head) THEN FallThrough
  ELSE IF ByteAt(b, offset) = 255
    THEN LET marker == ByteAt(b, offset + 1) IN
         IF IsSofMarker(marker)
           THEN LET height == readUInt16BE(b, offset + 5)
                    width == readUInt16BE(b, offset + 7)
                IN IF height.kind = "throw" THEN height
                   ELSE IF width.kind = "throw" THEN width
                   ELSE Return([width |-> Wide(0, width.value),
                                height |-> Wide(0, height.value)])
           ELSE LET length == readUInt16BE(b, offset + 2) IN
                IF length.kind = "throw" THEN length
                ELSE JpegScan(b, offset + length.value + 2)
    ELSE JpegScan(b, offset + 1)

\* a skip of length bytes, without the two bytes of the marker
JpegStepByLength(b, offset) ==
  IF ByteAt(b, offset) = 255
    THEN LET marker == ByteAt(b, offset + 1) IN
         IF IsSofMarker(marker)
           THEN LET height == readUInt16BE(b, offset + 5)
                    width == readUInt16BE(b, offset + 7)
                IN IF height.kind = "throw" THEN height
                   ELSE IF width.kind = "throw" THEN width
                   ELSE Return([width |-> Wide(0, width.value),
                                height |-> Wide(0, height.value)])
           ELSE LET length == readUInt16BE(b, offset + 2) IN
                IF length.kind = "throw" THEN length
                ELSE [kind |-> "next", value |-> offset + length.value]
    ELSE [kind |-> "next", value |-> offset + 1]

\* one iteration of the loop, entered with the loop variable at offset: the
\* value returned, the error thrown, or (kind "next") the loop variable's
\* value after the iteration
JpegStep(b, offset) ==
  IF ByteAt(b, offset) = 255
    THEN LET marker == ByteAt(b, offset + 1) IN
         IF IsSofMarker(marker)
           THEN LET height == readUInt16BE(b, offset + 5)
                    width == readUInt16BE(b, offset + 7)
                IN IF height.kind = "throw" THEN height
                   ELSE IF width.kind = "throw" THEN width
                   ELSE Return([width |-> Wide(0, width.value),
                                height |-> Wide(0, height.value)])
           ELSE LET length == readUInt16BE(b, offset + 2) IN
                IF length.kind = "throw" THEN length
                ELSE [kind |-> "next", value |-> offset + length.value + 2]
    ELSE [kind |-> "next", value |-> offset + 1]

\* the values the loop variable takes at the loop test, in order, from the
\* value offset on: the last one fails the test unless the iteration before
\* returned or threw
RECURSIVE JpegOffsets(_, _)
JpegOffsets(b, offset) ==
  IF ~InLoop(b, offset) THEN <<offset>>
  ELSE LET s == JpegStep(b, offset) IN
       IF s.kind = "next" THEN <<offset>> \o JpegOffsets(b, s.value) ELSE <<offset>>

\* The byte indices the JPEG loop reads or tries to read, from the loop
\* variable's value offset: buffer[offset], buffer[offset + 1], and the two
\* bytes of each readUInt16BE.
RECURSIVE JpegReads(_, _)
JpegReads(b, offset) ==
  IF ~InLoop(b, offset) THEN {}
  ELSE IF offset >= Len(b.head) THEN {k \in offset..(BufLength(b) - 1) : InLoop(b, k)}
  ELSE IF ByteAt(b, offset) = 255
    THEN LET marker == ByteAt(b, offset + 1) IN
         IF IsSofMarker(marker)
           THEN {offset, offset + 1} \cup (offset + 5)..(offset + 8)
           ELSE LET length == readUInt16BE(b, offset + 2) IN
                offset..(offset + 3) \cup
                  (IF length.kind = "throw" THEN {}
                   ELSE JpegReads(b, offset + length.value + 2))
    ELSE {offset} \cup JpegReads(b, offset + 1)

\* the PNG statement of getImageDimensions
PngDimensions(b) ==
  IF HasPngSignature(b)
    THEN LET width == readUInt32BE(b, 16)
             height == readUInt32BE(b, 20)
         IN IF width.kind = "throw" THEN width
            ELSE IF height.kind = "throw" THEN height
            ELSE Return([width |-> width.value, height |-> height.value])
    ELSE FallThrough

\* the body of getImageDimensions' try block
SniffBody(b) ==
  LET jpeg == IF HasJpegSignature(b) THEN JpegScan(b, 2) ELSE FallThrough IN
  IF jpeg.kind # "next" THEN jpeg
  ELSE LET png == PngDimensions(b) IN
       IF png.kind # "next" THEN png ELSE Return(null)

\* getImageDimensions without its catch: the error propagates
getImageDimensionsNoCatch(b) ==
  SniffBody(b).value

\* getImageDimensions: try { body } catch (error) { return null }
getImageDimensions(b) ==
  LET r == SniffBody(b) IN IF r.kind = "throw" THEN null ELSE r.value

(***************************************************************************)
(* The buffers the sniffer is run on: a signature, up to MaxSegs segments   *)
(* or stray bytes, a closing segment, cut at every length, and followed by  *)
(* up to MaxPad zero bytes.                                                 *)
(***************************************************************************)
MaxSegs == 2
MaxPad == 1

\* 32-bit big-endian fields used as declared dimensions
Words32 == {<<0, 0, 2, 88>>, <<128, 0, 0, 0>>, <<255, 255, 255, 255>>}

\* what may stand between the start-of-image marker and the frame header
PreSegments ==
  { <<255, 224, 0, 4, 1, 2>>,         \* APP0, length 4
    <<255, 219, 0, 3, 255>>,          \* DQT, length 3, payload byte FF
    <<255, 196, 0, 2>>,               \* DHT (0xC4, not a frame header), length 2
    <<255, 224, 0, 0>>,               \* a segment declaring length 0
    <<255>>,                          \* a fill byte
    <<255, 1>>,                       \* TEM, a marker without a length field
    <<0>> }                           \* a stray byte

RECURSIVE PreSequences(_)
PreSequences(n) ==
  IF n = 0 THEN {<<>>}
  ELSE LET shorter == PreSequences(n - 1) IN
       shorter \cup {s \o p : s \in shorter, p \in PreSegments}

\* a frame header segment: marker, length 11, precision 8, height, width,
\* one component
FrameSegment(marker, h, w) ==
  <<255, marker, 0, 11, 8>> \o h \o w \o <<1, 1, 17, 0>>

\* what the header ends with: a frame header (SOF0, SOF2, SOF3, or SOF5, which
\* the code does not look for), a start of scan, or nothing
ClosingSegments ==
  {FrameSegment(m, h, <<1, 144>>) : m \in {192, 194, 195, 197}, h \in {<<2, 88>>, <<255, 255>>}}
    \cup {<<255, 218, 0, 4, 0, 0, 1, 2, 3, 4, 5, 6>>, <<>>}

JpegHeads == {<<255, 216>> \o s \o c : s \in PreSequences(MaxSegs), c \in ClosingSegments}

PngHeads ==
  {PNG_SIGNATURE \o chunk \o w \o h \o <<8, 6, 0, 0, 0>> :
     chunk \in {<<0, 0, 0, 13, 73, 72, 68, 82>>, <<0, 0, 0, 0, 0, 0, 0, 0>>,
                <<255, 216, 255, 192, 255, 255, 255, 255>>},
     w \in Words32, h \in Words32}

OtherHeads ==
  { <<71, 73, 70, 56, 57, 97, 2, 88, 2, 88, 0, 0, 0, 0, 0, 0, 0, 0, 0, 0, 0, 0, 0, 0, 0>>,   \* GIF89a
    <<82, 73, 70, 70, 36, 0, 0, 0, 87, 69, 66, 80, 86, 80, 56, 32, 0, 0, 0, 0, 0, 0, 0, 0, 0>>, \* RIFF WEBP
    <<66, 77, 70, 0, 0, 0, 0, 0, 0, 0, 54, 0, 0, 0, 40, 0, 0, 0, 2, 0, 0, 0, 3, 0, 0>>,        \* BMP
    <<255, 192, 0, 11, 8, 2, 88, 2, 88, 1, 1, 17, 0>>,      \* a frame header without SOI
    <<137, 80, 78, 71, 13, 10, 26, 11>> \o <<0, 0, 0, 13, 73, 72, 68, 82, 0, 0, 0, 1, 0, 0, 0, 1, 0>>,
    <<216, 255, 0, 0, 0, 0, 0, 0, 0, 0, 0, 0>> }

Truncations(heads) == UNION {{SubSeq(h, 1, n) : n \in 0..Len(h)} : h \in heads}

SniffInputs ==
  {Buf(h, pad) : h \in Truncations(JpegHeads \cup PngHeads \cup OtherHeads), pad \in 0..MaxPad}

(***************************************************************************)
(* URLs, response headers and error messages.  A string the code searches   *)
(* or assembles is the sequence of its parts.                               *)
(***************************************************************************)
Includes(str, part) == \E n \in 1..Len(str) : str[n] = part

StartsWith(str, part) == Len(str) >= 1 /\ str[1] = part

\* the list a run is given: prefixes of a list with a repeated URL, in the
\* shape of FACEBOOK_IMAGE_URLS
SampleUrls ==
  << "/v/501755190_n.jpg?stp=dst-jpg", "/v/500619228_n.png",
     "/v/501755190_n.jpg?stp=dst-jpg", "/v/clip.mp4" >>

\* new URL(url).pathname and the query of each, in parts
Pathname(url) ==
  CASE url = "/v/501755190_n.jpg?stp=dst-jpg" -> <<"/", "v", "/", "501755190_n", ".jpg">>
    [] url = "/v/500619228_n.png" -> <<"/", "v", "/", "500619228_n", ".png">>
    [] url = "/v/clip.mp4" -> <<"/", "v", "/", "clip", ".mp4">>
    [] OTHER -> <<>>

Query(url) ==
  CASE url = "/v/501755190_n.jpg?stp=dst-jpg" -> <<"stp=dst-jpg">>
    [] OTHER -> <<>>

UrlAt(k) == SampleUrls[((k - 1) % Len(SampleUrls)) + 1]

UrlList(n) == [k \in 1..n |-> UrlAt(k)]

\* urlObj.pathname.split('/').pop().split('.')[0]
RECURSIVE LastSegment(_)
LastSegment(path) ==
  IF path = <<>> \/ path[Len(path)] = "/" THEN <<>>
  ELSE Append(LastSegment(SubSeq(path, 1, Len(path) - 1)), path[Len(path)])

BaseName(url) ==
  LET seg == LastSegment(Pathname(url)) IN
  IF seg = <<>> \/ seg[1] \in {".jpg", ".jpeg", ".png", ".gif", ".webp", ".bmp", ".mp4"}
    THEN "" ELSE seg[1]

SUPPORTED_FORMATS == <<".jpg", ".jpeg", ".png", ".gif", ".webp", ".bmp">>

MIN_FILE_SIZE == 10000

\* a Content-Type header in parts ("" when the header is missing)
TypeParts(contentType) ==
  CASE contentType = "image/jpeg" -> <<"image/", "jpeg">>
    [] contentType = "image/png" -> <<"image/", "png">>
    [] contentType = "text/html" -> <<"text/", "html">>
    [] OTHER -> <<>>

detectImageFormat(url, contentType) ==
  LET hits == {n \in 1..Len(SUPPORTED_FORMATS) : Includes(Pathname(url), SUPPORTED_FORMATS[n])}
      type == TypeParts(contentType)
  IN
  IF hits # {}
    THEN SUPPORTED_FORMATS[CHOOSE n \in hits : \A m \in hits : n <= m]
  ELSE IF Includes(type, "jpeg") \/ Includes(type, "jpg") THEN ".jpg"
  ELSE IF Includes(type, "png") THEN ".png"
  ELSE IF Includes(type, "gif") THEN ".gif"
  ELSE IF Includes(type, "webp") THEN ".webp"
  ELSE IF Includes(type, "bmp") THEN ".bmp"
  ELSE ".jpg"

\* Error messages
TimeoutMessage == <<"Timeout de telechargement">>
HttpMessage(statusCode) == <<"HTTP ", ToString(statusCode)>>
NotImageMessage == <<"Le contenu n'est pas une image">>
\* the too-small message naming the threshold in place of the size
TooSmallMessageThreshold(size) ==
  <<"Image trop petite (minimum ", ToString(MIN_FILE_SIZE), " bytes)">>

TooSmallMessage(size) == <<"Image trop petite (", ToString(size), " bytes)">>
InaccessibleMessage(statusCode) ==
  <<"URL inaccessible (", IF statusCode = Undefined THEN "erreur reseau" ELSE ToString(statusCode),
    ")">>
NotImageTypeMessage(contentType) ==
  <<"Le contenu n'est pas une image (", contentType, ")">>
ExpiredMessage == <<"URL expiree ou inaccessible">>

\* messages of the errors Node raises: a request or response error, a file error
NetworkErrors == {<<"socket hang up">>}
FileErrors == {<<"ENOSPC: no space left on device, write">>}

(***************************************************************************)
(* What the remote server may answer.                                       *)
(***************************************************************************)
ImageJpeg == "image/jpeg"
ImagePng == "image/png"
TextHtml == "text/html"

\* a response's status line and headers; contentLength is
\* parseInt(headers['content-length'], 10) || 0
Response(statusCode, contentType, contentLength) ==
  [statusCode |-> statusCode, contentType |-> contentType, contentLength |-> contentLength]

JpegHead(pre) ==
  <<255, 216>> \o pre \o FrameSegment(192, <<2, 88>>, <<2, 88>>)

\* a 600 x 600 JPEG of 10000 bytes and more, the same with a fill byte before
\* its frame header, a GIF, and a 5KB payload
Jpeg600 == Buf(JpegHead(<<255, 224, 0, 4, 1, 2>>), MIN_FILE_SIZE)
JpegFill600 == Buf(JpegHead(<<255>>), MIN_FILE_SIZE)
Gif600 == Buf(<<71, 73, 70, 56, 57, 97, 2, 88, 2, 88, 0, 0, 0>>, MIN_FILE_SIZE)
Small5K == Buf(JpegHead(<<>>), 5120 - Len(JpegHead(<<>>)))

\* the payloads by name
Body(name) ==
  CASE name = "Jpeg600" -> Jpeg600
    [] name = "JpegFill600" -> JpegFill600
    [] name = "Gif600" -> Gif600
    [] name = "Small5K" -> Small5K
    [] OTHER -> Buf(<<>>, 0)

\* a remote with several good answers and every bad one, and a remote with
\* one good answer per step and every bad one
FullRemote ==
  [ heads |-> { Response(200, ImageJpeg, 0), Response(200, ImageJpeg, 5120),
                Response(200, TextHtml, 0), Response(404, TextHtml, 0) },
    gets |-> { Response(200, ImageJpeg, 0), Response(200, ImagePng, 0),
               Response(200, TextHtml, 0), Response(404, TextHtml, 0) },
    bodies |-> { "Jpeg600", "JpegFill600", "Gif600", "Small5K" } ]

PlainRemote ==
  [ heads |-> { Response(200, ImageJpeg, 0), Response(200, ImageJpeg, 5120),
                Response(200, TextHtml, 0), Response(404, TextHtml, 0) },
    gets |-> { Response(200, ImageJpeg, 0), Response(200, TextHtml, 0),
               Response(404, TextHtml, 0) },
    bodies |-> { "Jpeg600", "Small5K" } ]

\* a remote that answers either request with a status of every class: 200,
\* other 2xx codes, redirects, 4xx and 5xx
StatusCodes == {200, 204, 206, 301, 302, 404, 500}

StatusRemote ==
  [ heads |-> {Response(code, ImageJpeg, 0) : code \in StatusCodes},
    gets |-> {Response(code, ImageJpeg, 0) : code \in StatusCodes},
    bodies |-> { "Jpeg600" } ]

\* the answers of the run's remote
Answers ==
  IF remote = "full" THEN FullRemote
  ELSE IF remote = "status" THEN StatusRemote ELSE PlainRemote

(***************************************************************************)
(* Per-item state.  pos is where the item's I/O stands:                     *)
(*   idle     processFacebookImageUrl / processFacebookUrl not called yet   *)
(*   head     the validity check's request is in flight                     *)
(*   get      the transfer's request is in flight                           *)
(*   body     the response callback has run and accepted the response       *)
(*   write    (image) the end handler awaits fs.writeFile                   *)
(*   dropped  (video) the transfer was rejected before the file stream got  *)
(*            its handlers; the stream is still open                        *)
(*   closed   no further event of this item                                 *)
(* statuses is history: the status codes answered to the item's requests,  *)
(* the check's first.                                                      *)
(* timer: none, armed, fired, cleared.  result: Pending while the item's     *)
(* promise is pending, then its DownloadResult.                             *)
(***************************************************************************)
NoUrl == ""
NoBody == ""
Pending == [pending |-> TRUE]

IdleItem ==
  [url |-> NoUrl, index |-> Undefined, pos |-> "idle", timer |-> "none",
   result |-> Pending, file |-> "none", contentType |-> "", body |-> NoBody,
   urlCheck |-> [unset |-> TRUE], statuses |-> <<>>]

\* processFacebookImageUrl(url, index) / processFacebookUrl(url, index) up to
\* its first await: the validity check's request is issued
StartedItem(url, index) == [IdleItem EXCEPT !.url = url, !.index = index, !.pos = "head"]

\* Date.now() - startTime and new Date().toISOString(): the clock is not
\* modelled, the fields are
Elapsed == "Date.now() - startTime"
Timestamp == "new Date().toISOString()"

\* the failure DownloadResult without its reason
FailureResultNoReason(it, message) ==
  [url |-> it.url, index |-> it.index + 1, success |-> FALSE, error |-> <<>>,
   duration |-> Elapsed, timestamp |-> Timestamp]

\* the failure DownloadResult
FailureResult(it, message) ==
  [url |-> it.url, index |-> it.index + 1, success |-> FALSE, error |-> message,
   duration |-> Elapsed, timestamp |-> Timestamp]

\* path.join(DOWNLOAD_FOLDER, `facebook_image_${index + 1}_${imageId}.tmp`)
\*   .replace(/\.[^.]+$/, detectedFormat)
ImageFilenameById(it, format) ==
  "images/facebook_image_" \o
    (IF BaseName(it.url) = "" THEN "image_now" ELSE BaseName(it.url)) \o format

ImageFilename(it, format) ==
  "images/facebook_image_" \o ToString(it.index + 1) \o "_" \o
    (IF BaseName(it.url) = "" THEN "image_now" ELSE BaseName(it.url)) \o format

\* url.includes('.mp4') ? '.mp4' : '.video'
VideoExtension(url) ==
  IF Includes(Pathname(url), ".mp4") \/ Includes(Query(url), ".mp4") THEN ".mp4" ELSE ".video"

\* path.join(DOWNLOAD_FOLDER, `facebook_video_${index + 1}_${videoId}${extension}`)
VideoFilename(it) ==
  "downloads/facebook_video_" \o ToString(it.index + 1) \o "_" \o BaseName(it.url) \o
    VideoExtension(it.url)

\* a result that is a success only if the dimensions were found
ImageSuccessIfParsed(it) ==
  LET format == detectImageFormat(it.url, it.contentType) IN
  IF getImageDimensions(Body(it.body)) = null
    THEN [url |-> it.url, index |-> it.index + 1, success |-> FALSE,
          error |-> <<"dimensions">>, duration |-> Elapsed, timestamp |-> Timestamp]
    ELSE [url |-> it.url, index |-> it.index + 1, success |-> TRUE,
          filename |-> ImageFilename(it, format), fileSize |-> BufLength(Body(it.body)),
          format |-> format, dimensions |-> getImageDimensions(Body(it.body)),
          duration |-> Elapsed, timestamp |-> Timestamp]

\* the success DownloadResult of the image pipeline, from what downloadImage
\* resolved with
ImageSuccess(it) ==
  LET format == detectImageFormat(it.url, it.contentType) IN
  [url |-> it.url, index |-> it.index + 1, success |-> TRUE,
   filename |-> ImageFilename(it, format), fileSize |-> BufLength(Body(it.body)),
   format |-> format, dimensions |-> getImageDimensions(Body(it.body)),
   duration |-> Elapsed, timestamp |-> Timestamp]

\* the success DownloadResult of the video pipeline
VideoSuccess(it, size) ==
  [url |-> it.url, index |-> it.index + 1, success |-> TRUE,
   filename |-> VideoFilename(it), fileSize |-> size,
   duration |-> Elapsed, timestamp |-> Timestamp]

\* resolve / reject of a promise: only the first call settles it
Settle(it, res) == IF it.result = Pending THEN [it EXCEPT !.result = res] ELSE it

\* clearTimeout(timeout)
ClearTimeout(it) == IF it.timer = "armed" THEN [it EXCEPT !.timer = "cleared"] ELSE it

(***************************************************************************)
(* The batch runner.                                                        *)
(***************************************************************************)
\* urls.slice(from): the slice without its end
SliceToEnd(seq, from, to) == SubSeq(seq, from + 1, Len(seq))

\* urls.slice(from, to)
Slice(seq, from, to) ==
  SubSeq(seq, from + 1, IF to < Len(seq) THEN to ELSE Len(seq))

\* the index a batch's callback passes on, without the batch's start
CallIndexInBatch(batchStartIndex, j) == j

\* (url, i) => processFacebookImageUrl(url, batchStartIndex + i)
CallIndex(batchStartIndex, j) == batchStartIndex + j

\* processBatch(urlBatch, batchStartIndex), up to its Promise.all: every URL's
\* call runs to its first await
processBatch(it, urlBatch, batchStartIndex) ==
  [k \in DOMAIN it |->
     IF k > batchStartIndex /\ k <= batchStartIndex + Len(urlBatch)
       THEN StartedItem(urlBatch[k - batchStartIndex],
                        CallIndex(batchStartIndex, k - batchStartIndex - 1))
       ELSE it[k]]

\* a wait for the first promise in place of Promise.all: one settled item is
\* enough
AnySettled(it, start, len) == \E j \in 1..len : it[start + j].result # Pending

\* Promise.all(promises) is fulfilled: every promise of the batch is
AllSettled(it, start, len) == \A j \in 1..len : it[start + j].result # Pending

\* what Promise.all yields: the results in the order of the promises
BatchResults(it, start, len) == [j \in 1..len |-> it[start + j].result]

BatchLength == Len(Slice(urls, i, i + batchSize))

\* r.success and r.fileSize of a results entry, as JavaScript reads a
\* property: undefined, which counts as false and as 0, when it is missing
IsSuccess(r) == "success" \in DOMAIN r /\ r.success

FileSizeOf(r) == IF "fileSize" \in DOMAIN r THEN r.fileSize ELSE 0

\* results.reduce((sum, r) => sum + (r.fileSize || 0), 0)
RECURSIVE TotalSize(_)
TotalSize(res) ==
  IF res = <<>> THEN 0
  ELSE TotalSize(SubSeq(res, 1, Len(res) - 1)) + FileSizeOf(res[Len(res)])

\* Math.round(totalSize / 1024 / 1024 * 100), the megabytes in hundredths
HundredthsOfMB(totalSize) == (totalSize * 200 + 1048576) \div 2097152

\* formatStats: for each format of a successful entry, how many have it
FormatStats(res) ==
  LET ok == {k \in 1..Len(res) : IsSuccess(res[k])} IN
  [f \in {res[k].format : k \in ok} |-> Cardinality({k \in ok : res[k].format = f})]

\* the summary with every entry counted as successful
SummaryOfEntries(res) ==
  [totalUrls |-> Len(urls),
   successful |-> Len(res),
   failed |-> Cardinality({k \in 1..Len(res) : ~IsSuccess(res[k])}),
   totalSizeMB |-> HundredthsOfMB(TotalSize(res)),
   formatStats |-> IF pipeline = "image" THEN FormatStats(res) ELSE <<>>]

\* the summary object of the value returned; formatStats is of the image
\* pipeline only (here the empty table in the video pipeline)
Summary(res) ==
  [totalUrls |-> Len(urls),
   successful |-> Cardinality({k \in 1..Len(res) : IsSuccess(res[k])}),
   failed |-> Cardinality({k \in 1..Len(res) : ~IsSuccess(res[k])}),
   totalSizeMB |-> HundredthsOfMB(TotalSize(res)),
   formatStats |-> IF pipeline = "image" THEN FormatStats(res) ELSE <<>>]

\* main calls the run only on a non-empty list; a run on an empty list is a
\* call of the exported function
CalledFromMain == Len(urls) > 0

\* the loop is left with the results res: the summary is computed and
\* {summary, results} returned; main, if it is the caller, calls saveResults,
\* which issues the write of the report
ReturnResults(res) ==
  /\ pc' = "returned"
  /\ summary' = Summary(res)
  /\ report' = IF CalledFromMain
                 THEN [state |-> "writing", data |-> [summary |-> Summary(res), results |-> res]]
                 ELSE report

\* the loop body from its top, for loop variable value start: the loop test,
\* the slice and processBatch
EnterLoop(start) ==
  /\ i' = start
  /\ IF start < Len(urls)
       THEN LET batch == Slice(urls, start, start + batchSize) IN
            /\ item' = processBatch(item, batch, start)
            /\ batches' = Append(batches, <<start, Len(batch)>>)
            /\ pc' = "batch"
            /\ UNCHANGED <<summary, report>>
       ELSE /\ ReturnResults(results)
            /\ UNCHANGED <<item, batches>>

\* the pause test with the batch that ends the list included
MoreBatchesInclusive == i + batchSize <= Len(urls)

\* if (i + CONFIG.BATCH_SIZE < urls.length): a batch follows this one
MoreBatches == i + batchSize < Len(urls)

\* the runner's continuation once an item has changed to it2: when the awaited
\* Promise.all is fulfilled, push the batch's results, then pause or go on
Resume(it2) ==
  IF pc = "batch" /\ BatchLength > 0 /\ AllSettled(it2, i, BatchLength)
    THEN /\ results' = results \o BatchResults(it2, i, BatchLength)
         /\ IF MoreBatches
              THEN /\ pc' = "pause" /\ i' = i
                   /\ pauses' = Append(pauses, i)
                   /\ UNCHANGED <<summary, report>>
              \* i += BATCH_SIZE, and the loop test is the comparison that
              \* just failed: the loop is left and the summary returned
              ELSE /\ i' = i + batchSize
                   /\ ReturnResults(results')
                   /\ UNCHANGED pauses
    ELSE UNCHANGED <<pc, i, results, pauses, summary, report>>

Alive == pc \in {"batch", "pause", "returned"}

Fault == faultsLeft > 0 /\ faultsLeft' = faultsLeft - 1

config == <<pipeline, urls, batchSize, remote, buffer, dimensions>>

\* await fs.mkdir(DOWNLOAD_FOLDER, {recursive: true}) resolves
MkdirDone ==
  /\ pc = "mkdir"
  /\ EnterLoop(0)
  /\ UNCHANGED <<results, faultsLeft, config, pauses, exitCode>>

\* fs.mkdir rejects and the catch only logs: the run goes on into the loop
MkdirErrorSwallowed ==
  /\ pc = "mkdir"
  /\ Fault
  /\ EnterLoop(0)
  /\ UNCHANGED <<results, config, pauses, exitCode>>

\* fs.mkdir rejects: the catch logs and rethrows, and the catch of main, if
\* it is the caller, ends the process with process.exit(1)
MkdirError ==
  /\ pc = "mkdir"
  /\ Fault
  /\ pc' = "rejected"
  /\ exitCode' = IF CalledFromMain THEN 1 ELSE exitCode
  /\ UNCHANGED <<i, results, item, batches, config, pauses, summary, report>>

\* the 2 (3) second pause's timer fires: i += BATCH_SIZE and the next turn
PauseDone ==
  /\ pc = "pause"
  /\ EnterLoop(i + batchSize)
  /\ UNCHANGED <<results, faultsLeft, config, pauses, exitCode>>

\* saveResults: fs.writeFile of the report resolves
ReportWritten ==
  /\ pc = "returned" /\ report.state = "writing"
  /\ report' = [report EXCEPT !.state = "written"]
  /\ UNCHANGED <<pc, i, results, item, batches, faultsLeft, config, pauses, summary,
                 exitCode>>

\* saveResults: fs.writeFile of the report rejects; the catch logs the error
\* and main goes on
ReportWriteError ==
  /\ pc = "returned" /\ report.state = "writing"
  /\ Fault
  /\ report' = [report EXCEPT !.state = "failed"]
  /\ UNCHANGED <<pc, i, results, item, batches, config, pauses, summary, exitCode>>

\* item k becomes it2 in a callback, and the runner resumes if it can
Update(k, it2) ==
  /\ item' = [item EXCEPT ![k] = it2]
  /\ Resume(item')
  /\ UNCHANGED <<batches, config, exitCode>>

(***************************************************************************)
(* The image pipeline: processFacebookImageUrl, checkImageUrlValidity and   *)
(* downloadImage, one action per callback.                                  *)
(***************************************************************************)
\* a status test that accepts every 2xx code
StatusOk2xx(statusCode) == statusCode >= 200 /\ statusCode <= 299

\* response.statusCode === 200
StatusOk(statusCode) == statusCode = 200

\* the item after a response with this status code
Answered(it, statusCode) == [it EXCEPT !.statuses = Append(@, statusCode)]

\* what checkImageUrlValidity resolves with for a response
UrlCheck(r) ==
  [isValid |-> StatusOk(r.statusCode), isImage |-> StartsWith(TypeParts(r.contentType), "image/"),
   contentType |-> r.contentType, size |-> r.contentLength, statusCode |-> r.statusCode]

\* what it resolves with on a request error
UrlCheckError ==
  [isValid |-> FALSE, isImage |-> FALSE, contentType |-> "", size |-> 0,
   statusCode |-> Undefined]

\* the three early returns of processFacebookImageUrl: <<reason>>, or <<>> when
\* the item goes on to the transfer
CheckFailure(c) ==
  IF ~c.isValid THEN <<InaccessibleMessage(c.statusCode)>>
  ELSE IF ~c.isImage THEN <<NotImageTypeMessage(c.contentType)>>
  ELSE IF c.size # 0 /\ c.size < MIN_FILE_SIZE THEN <<TooSmallMessage(c.size)>>
  ELSE <<>>

\* the continuation that does not look at the declared size
AfterImageCheckUnsized(it, c) ==
  IF ~c.isValid \/ ~c.isImage
    THEN Settle([it EXCEPT !.pos = "closed", !.urlCheck = c],
                FailureResult(it, CheckFailure(c)[1]))
    ELSE [it EXCEPT !.pos = "get", !.timer = "armed", !.urlCheck = c]

\* the continuation of `await checkImageUrlValidity(url)`
AfterImageCheck(it, c) ==
  IF CheckFailure(c) # <<>>
    THEN Settle([it EXCEPT !.pos = "closed", !.urlCheck = c],
                FailureResult(it, CheckFailure(c)[1]))
    \* downloadImage(url, filename): the timer is armed and the GET issued
    ELSE [it EXCEPT !.pos = "get", !.timer = "armed", !.urlCheck = c]

\* the validity check's response callback
CheckImageResponse(k) ==
  /\ pipeline = "image" /\ Alive /\ item[k].pos = "head"
  /\ \E r \in Answers.heads :
       /\ IF CheckFailure(UrlCheck(r)) # <<>> THEN Fault ELSE UNCHANGED faultsLeft
       /\ Update(k, Answered(AfterImageCheck(item[k], UrlCheck(r)), r.statusCode))

\* the validity check's request 'error' handler
CheckImageError(k) ==
  /\ pipeline = "image" /\ Alive /\ item[k].pos = "head"
  /\ Fault
  /\ Update(k, AfterImageCheck(item[k], UrlCheckError))

\* downloadImage's response callback
OnImageResponse(it, r) ==
  IF ~StatusOk(r.statusCode)
    THEN Settle(ClearTimeout([it EXCEPT !.pos = "closed"]),
                FailureResult(it, HttpMessage(r.statusCode)))
  ELSE IF ~StartsWith(TypeParts(r.contentType), "image/")
    THEN Settle(ClearTimeout([it EXCEPT !.pos = "closed"]),
                FailureResult(it, NotImageMessage))
  ELSE [it EXCEPT !.pos = "body", !.contentType = r.contentType]

ImageResponse(k) ==
  /\ pipeline = "image" /\ Alive /\ item[k].pos = "get"
  /\ \E r \in Answers.gets :
       /\ IF OnImageResponse(item[k], r).pos = "closed" THEN Fault ELSE UNCHANGED faultsLeft
       /\ Update(k, Answered(OnImageResponse(item[k], r), r.statusCode))

\* the request's 'error' handler, and the response's
ImageError(k) ==
  /\ pipeline = "image" /\ Alive /\ item[k].pos \in {"get", "body"}
  /\ Fault
  /\ \E err \in NetworkErrors :
       Update(k, Settle(ClearTimeout([item[k] EXCEPT !.pos = "closed"]),
                        FailureResult(item[k], err)))

\* a size test that refuses the empty payload only
TooSmallIfEmpty(downloadedSize) == downloadedSize < 1

\* downloadedSize < CONFIG.MIN_FILE_SIZE
TooSmall(downloadedSize) == downloadedSize < MIN_FILE_SIZE

\* the response's 'end' handler, up to its await of fs.writeFile; body is
\* Buffer.concat(chunks) and its length downloadedSize
OnImageEnd(it, body) ==
  IF TooSmall(BufLength(Body(body)))
    THEN Settle(ClearTimeout([it EXCEPT !.pos = "closed", !.body = body]),
                FailureResult(it, TooSmallMessage(BufLength(Body(body)))))
    ELSE ClearTimeout([it EXCEPT !.pos = "write", !.body = body])

ImageEnd(k) ==
  /\ pipeline = "image" /\ Alive /\ item[k].pos = "body"
  /\ \E body \in Answers.bodies :
       /\ IF TooSmall(BufLength(Body(body))) THEN Fault ELSE UNCHANGED faultsLeft
       /\ Update(k, OnImageEnd(item[k], body))

\* fs.writeFile resolves: the 'end' handler resolves the download, and
\* processFacebookImageUrl returns the success result
ImageWritten(k) ==
  /\ pipeline = "image" /\ Alive /\ item[k].pos = "write"
  /\ UNCHANGED faultsLeft
  /\ Update(k, Settle([item[k] EXCEPT !.pos = "closed", !.file = "written"],
                      ImageSuccess(item[k])))

\* fs.writeFile rejects: the 'end' handler's catch rejects the download
ImageWriteError(k) ==
  /\ pipeline = "image" /\ Alive /\ item[k].pos = "write"
  /\ Fault
  /\ \E err \in FileErrors :
       Update(k, Settle([item[k] EXCEPT !.pos = "closed"], FailureResult(item[k], err)))

\* the DOWNLOAD_TIMEOUT timer of downloadImage / downloadFile fires: the
\* download is rejected, the request is left running
TimerFires(k) ==
  /\ Alive /\ item[k].timer = "armed"
  /\ Fault
  /\ Update(k, Settle([item[k] EXCEPT !.timer = "fired"],
                      FailureResult(item[k], TimeoutMessage)))

(***************************************************************************)
(* The video pipeline: processFacebookUrl, checkUrlValidity, downloadFile.  *)
(***************************************************************************)
\* the continuation of `await checkUrlValidity(url)`
AfterUrlCheck(it, isValid) ==
  IF ~isValid
    THEN Settle([it EXCEPT !.pos = "closed", !.urlCheck = [isValid |-> isValid]],
                FailureResult(it, ExpiredMessage))
    \* downloadFile(url, filename): the timer is armed, the write stream
    \* created and the GET issued
    ELSE [it EXCEPT !.pos = "get", !.timer = "armed", !.file = "open",
                    !.urlCheck = [isValid |-> isValid]]

CheckUrlResponse(k) ==
  /\ pipeline = "video" /\ Alive /\ item[k].pos = "head"
  /\ \E r \in Answers.heads :
       /\ IF ~StatusOk(r.statusCode) THEN Fault ELSE UNCHANGED faultsLeft
       /\ Update(k, Answered(AfterUrlCheck(item[k], StatusOk(r.statusCode)), r.statusCode))

CheckUrlError(k) ==
  /\ pipeline = "video" /\ Alive /\ item[k].pos = "head"
  /\ Fault
  /\ Update(k, AfterUrlCheck(item[k], FALSE))

\* downloadFile's response callback: on status 200 the 'finish' and 'error'
\* handlers are put on the write stream and the response piped into it
OnFileResponse(it, r) ==
  IF ~StatusOk(r.statusCode)
    THEN Settle(ClearTimeout([it EXCEPT !.pos = "dropped"]),
                FailureResult(it, HttpMessage(r.statusCode)))
    ELSE [it EXCEPT !.pos = "body"]

FileResponse(k) ==
  /\ pipeline = "video" /\ Alive /\ item[k].pos = "get"
  /\ \E r \in Answers.gets :
       /\ IF ~StatusOk(r.statusCode) THEN Fault ELSE UNCHANGED faultsLeft
       /\ Update(k, Answered(OnFileResponse(item[k], r), r.statusCode))

\* the request's 'error' handler
FileRequestError(k) ==
  /\ pipeline = "video" /\ Alive /\ item[k].pos = "get"
  /\ Fault
  /\ \E err \in NetworkErrors :
       Update(k, Settle(ClearTimeout([item[k] EXCEPT !.pos = "dropped"]),
                        FailureResult(item[k], err)))

\* the write stream's 'finish' handler, after the response has been piped
FileFinish(k) ==
  /\ pipeline = "video" /\ Alive /\ item[k].pos = "body" /\ item[k].file = "open"
  /\ UNCHANGED faultsLeft
  /\ \E body \in Answers.bodies :
       Update(k, Settle(ClearTimeout([item[k] EXCEPT !.pos = "closed", !.file = "complete"]),
                        VideoSuccess(item[k], BufLength(Body(body)))))

\* the write stream emits 'error' while its handler is on: the partial file
\* is unlinked and the download rejected
FileError(k) ==
  /\ pipeline = "video" /\ Alive /\ item[k].pos = "body" /\ item[k].file = "open"
  /\ Fault
  /\ \E err \in FileErrors :
       Update(k, Settle(ClearTimeout([item[k] EXCEPT !.pos = "closed", !.file = "removed"]),
                        FailureResult(item[k], err)))

\* the write stream emits 'error' with no handler on it (before the response
\* callback has run, or after it rejected): an unhandled 'error' event, which
\* ends the process
FileErrorUnhandled(k) ==
  /\ pipeline = "video" /\ Alive /\ item[k].pos \in {"get", "dropped"}
  /\ item[k].file = "open"
  /\ Fault
  /\ pc' = "crashed"
  /\ exitCode' = 1
  /\ UNCHANGED <<i, results, item, batches, config, pauses, summary, report>>

(***************************************************************************)
(* Runs.                                                                    *)
(***************************************************************************)
MaxUrls == 3
MaxBatchSize == 2
MaxFaults == 2

Unset == [unset |-> TRUE]

InitRun(p, n, size, faults, rem) ==
  /\ pipeline = p
  /\ urls = UrlList(n)
  /\ batchSize = size
  /\ pc = "mkdir"
  /\ i = 0
  /\ results = <<>>
  /\ item = [k \in 1..n |-> IdleItem]
  /\ batches = <<>>
  /\ faultsLeft = faults
  /\ remote = rem
  /\ buffer = Buf(<<>>, 0)
  /\ dimensions = Unset
  /\ pauses = <<>>
  /\ summary = Unset
  /\ report = [state |-> "none", data |-> Unset]
  /\ exitCode = Undefined

\* CONFIG.BATCH_SIZE as the two programs set it
IMAGE_BATCH_SIZE == 5
VIDEO_BATCH_SIZE == 3
MaxConfiguredUrls == 7

\* a list of up to MaxUrls URLs, CONFIG.BATCH_SIZE set to any size up to
\* MaxBatchSize, and up to MaxFaults failures
InitSmall ==
  \E p \in {"image", "video"}, n \in 0..MaxUrls, size \in 1..MaxBatchSize :
    InitRun(p, n, size, MaxFaults, "plain")

\* a list of up to MaxConfiguredUrls URLs, CONFIG.BATCH_SIZE as configured, and
\* no failure
InitConfigured ==
  \E p \in {"image", "video"}, n \in 0..MaxConfiguredUrls :
    InitRun(p, n, IF p = "image" THEN IMAGE_BATCH_SIZE ELSE VIDEO_BATCH_SIZE, 0, "plain")

Init == InitSmall \/ InitConfigured

Items == DOMAIN item

Next ==
  \/ MkdirDone
  \/ MkdirError
  \/ PauseDone
  \/ ReportWritten
  \/ ReportWriteError
  \/ \E k \in Items : CheckImageResponse(k)
  \/ \E k \in Items : CheckImageError(k)
  \/ \E k \in Items : ImageResponse(k)
  \/ \E k \in Items : ImageError(k)
  \/ \E k \in Items : ImageEnd(k)
  \/ \E k \in Items : ImageWritten(k)
  \/ \E k \in Items : ImageWriteError(k)
  \/ \E k \in Items : TimerFires(k)
  \/ \E k \in Items : CheckUrlResponse(k)
  \/ \E k \in Items : CheckUrlError(k)
  \/ \E k \in Items : FileResponse(k)
  \/ \E k \in Items : FileRequestError(k)
  \/ \E k \in Items : FileFinish(k)
  \/ \E k \in Items : FileError(k)
  \/ \E k \in Items : FileErrorUnhandled(k)

Spec == Init /\ [][Next]_vars

(***************************************************************************)
(* Runs of the image pipeline on one or two URLs against a remote with      *)
(* several kinds of good answers.                                           *)
(***************************************************************************)
MaxItemUrls == 2
MaxItemFaults == 2

InitItem ==
  \E n \in 1..MaxItemUrls : InitRun("image", n, IMAGE_BATCH_SIZE, MaxItemFaults, "full")

NextItem ==
  \/ MkdirDone
  \/ MkdirError
  \/ ReportWritten
  \/ ReportWriteError
  \/ \E k \in Items : CheckImageResponse(k)
  \/ \E k \in Items : CheckImageError(k)
  \/ \E k \in Items : ImageResponse(k)
  \/ \E k \in Items : ImageError(k)
  \/ \E k \in Items : ImageEnd(k)
  \/ \E k \in Items : ImageWritten(k)
  \/ \E k \in Items : ImageWriteError(k)
  \/ \E k \in Items : TimerFires(k)

SpecItem == InitItem /\ [][NextItem]_vars

(***************************************************************************)
(* Runs against a remote that answers with every class of status code: up  *)
(* to MaxStatusUrls URLs, either pipeline, no error other than a refused    *)
(* status and the timeout.                                                  *)
(***************************************************************************)
MaxStatusUrls == 2
MaxStatusFaults == 2

InitStatus ==
  \E p \in {"image", "video"}, n \in 1..MaxStatusUrls, size \in 1..MaxBatchSize :
    InitRun(p, n, size, MaxStatusFaults, "status")

NextStatus ==
  \/ MkdirDone
  \/ PauseDone
  \/ ReportWritten
  \/ \E k \in Items : CheckImageResponse(k)
  \/ \E k \in Items : ImageResponse(k)
  \/ \E k \in Items : ImageEnd(k)
  \/ \E k \in Items : ImageWritten(k)
  \/ \E k \in Items : TimerFires(k)
  \/ \E k \in Items : CheckUrlResponse(k)
  \/ \E k \in Items : FileResponse(k)
  \/ \E k \in Items : FileFinish(k)

SpecStatus == InitStatus /\ [][NextStatus]_vars

(***************************************************************************)
(* Properties of the batch runner, checked under Spec.                      *)
(***************************************************************************)
Returned == pc = "returned"

Settled(k) == item[k].result # Pending

Started(k) == item[k].pos # "idle"

\* the batch an item belongs to, counted from 0
BatchOf(k) == (k - 1) \div batchSize

\* C1: the run returns a results list of exactly N entries in which entry k
\* (0-based) has the url of input URL k and index k+1, whatever the items'
\* outcomes and the order in which they complete; while it runs the list is a
\* prefix of that.
C1_OneResultPerUrlInOrder ==
  /\ Len(results) <= Len(urls)
  /\ \A k \in 1..Len(results) : results[k].url = urls[k] /\ results[k].index = k
  /\ Returned => Len(results) = Len(urls)

\* C1 witness: a returned run of three URLs in two batches, the first and the
\* third the same URL, in which the first item failed and the others did not.
C1_Witness ==
  /\ Returned /\ Len(urls) = 3 /\ Len(batches) = 2 /\ Len(results) = 3
  /\ urls[1] = urls[3]
  /\ ~results[1].success /\ results[2].success /\ results[3].success

\* C2: in the image pipeline a failed item has a DownloadResult with
\* success:false and a non-empty error, its own; no item's failure makes the
\* run reject or keeps the runner waiting, and the report holds every item's
\* result.
C2_FailuresStayLocal ==
  pipeline = "image" =>
    /\ \A k \in Items :
         Settled(k) /\ ~item[k].result.success =>
           /\ Len(item[k].result.error) > 0
           /\ item[k].result.url = urls[k] /\ item[k].result.index = k
    /\ (\E k \in Items : Started(k)) => pc \in {"batch", "pause", "returned"}
    /\ pc = "batch" => ~AllSettled(item, i, BatchLength)
    /\ \A k \in 1..Len(results) : results[k] = item[k].result
    /\ Returned => Len(results) = Len(urls)

\* C2 witness: a returned image run in which the first item timed out, the
\* second of the same batch was downloaded, and the third, of a later batch,
\* failed its validity check.
C2_Witness ==
  /\ pipeline = "image" /\ Returned /\ Len(urls) = 3 /\ batchSize = 2
  /\ Len(results) = 3
  /\ ~results[1].success /\ results[1].error = TimeoutMessage
  /\ results[2].success
  /\ ~results[3].success /\ results[3].error = InaccessibleMessage(404)

\* C3: no item of a batch is started before every item of the batches before
\* it has its DownloadResult, and while the runner waits for a batch every
\* item of that batch has been started.
C3_BatchBarrier ==
  /\ \A k \in Items : \A m \in Items :
       Started(k) /\ BatchOf(m) < BatchOf(k) => Settled(m)
  /\ pc = "batch" => \A j \in 1..BatchLength : Started(i + j)

\* C3 witness: the runner waits for a batch after the first, of which one
\* item has its result and an earlier one has not.
C3_Witness ==
  /\ pc = "batch" /\ i > 0 /\ BatchLength >= 2
  /\ Started(i + 1) /\ ~Settled(i + 1)
  /\ Settled(i + 2)
  /\ \A m \in 1..i : Settled(m)

\* ceil(n / b)
CeilDiv(n, b) == (n + b - 1) \div b

\* C4: the batches issued are consecutive slices of the input, of batchSize
\* items each except the last, which holds the rest; a returned run has issued
\* exactly ceil(N / batchSize) of them, and none when N = 0.
C4_BatchesAreSlices ==
  /\ Len(batches) <= CeilDiv(Len(urls), batchSize)
  /\ \A j \in 1..Len(batches) :
       /\ batches[j][1] = (j - 1) * batchSize
       /\ batches[j][2] = IF j * batchSize <= Len(urls) THEN batchSize
                          ELSE Len(urls) - (j - 1) * batchSize
       /\ batches[j][2] >= 1
  /\ Returned => Len(batches) = CeilDiv(Len(urls), batchSize)

\* C4 witness: the image run of 7 URLs with its batch size of 5 has returned
\* after two batches, of 5 and of 2 items.
C4_Witness ==
  /\ pipeline = "image" /\ batchSize = IMAGE_BATCH_SIZE /\ Len(urls) = 7
  /\ Returned
  /\ batches = << <<0, 5>>, <<5, 2>> >>

(***************************************************************************)
(* Runs in which the local file system works and the remote server may      *)
(* answer, fail or stay silent.  The event loop runs a timer's callback     *)
(* once the timer is due, and a file operation's continuation once the      *)
(* operation is complete; nothing makes the remote answer.                  *)
(***************************************************************************)
MaxLiveUrls == 2

InitLive ==
  \E p \in {"image", "video"}, n \in 1..MaxLiveUrls, size \in 1..MaxBatchSize :
    InitRun(p, n, size, 2 * MaxLiveUrls, "plain")

NextLive ==
  \/ MkdirDone
  \/ PauseDone
  \/ ReportWritten
  \/ \E k \in Items : CheckImageResponse(k)
  \/ \E k \in Items : CheckImageError(k)
  \/ \E k \in Items : ImageResponse(k)
  \/ \E k \in Items : ImageError(k)
  \/ \E k \in Items : ImageEnd(k)
  \/ \E k \in Items : ImageWritten(k)
  \/ \E k \in Items : TimerFires(k)
  \/ \E k \in Items : CheckUrlResponse(k)
  \/ \E k \in Items : CheckUrlError(k)
  \/ \E k \in Items : FileResponse(k)
  \/ \E k \in Items : FileRequestError(k)
  \/ \E k \in Items : FileFinish(k)

SpecLive ==
  /\ InitLive
  /\ [][NextLive]_vars
  /\ WF_vars(MkdirDone)
  /\ WF_vars(PauseDone)
  /\ WF_vars(ReportWritten)
  /\ \A k \in 1..MaxLiveUrls : WF_vars(k \in Items /\ TimerFires(k))
  /\ \A k \in 1..MaxLiveUrls : WF_vars(k \in Items /\ ImageWritten(k))

\* an armed timer can always fire: the failure budget never runs out in these
\* runs
TimerCanFire == \A k \in Items : item[k].timer = "armed" => faultsLeft > 0

\* C5: granted that timers fire, every started item eventually produces its
\* DownloadResult, also when the remote never answers or never finishes a
\* request, so the run eventually returns.
C5_StuckItemEndsByTimeout ==
  /\ \A k \in 1..MaxLiveUrls :
       (k \in Items /\ Started(k)) ~> (k \in Items /\ Settled(k))
  /\ <>Returned

\* C5, the part the transfer's timer does give: an item whose transfer has
\* begun eventually produces its DownloadResult.
C5_TransferEndsByTimeout ==
  \A k \in 1..MaxLiveUrls :
    (k \in Items /\ item[k].timer = "armed") ~> (k \in Items /\ Settled(k))

(***************************************************************************)
(* The sniffer on its own: getImageDimensions applied to a buffer.          *)
(***************************************************************************)
InitSniff ==
  /\ pipeline = "sniff"
  /\ urls = <<>>
  /\ batchSize = IMAGE_BATCH_SIZE
  /\ pc = "sniff"
  /\ i = 0
  /\ results = <<>>
  /\ item = <<>>
  /\ batches = <<>>
  /\ faultsLeft = 0
  /\ remote = "plain"
  /\ buffer \in SniffInputs
  /\ dimensions = Unset
  /\ pauses = <<>>
  /\ summary = Unset
  /\ report = [state |-> "none", data |-> Unset]
  /\ exitCode = Undefined

Sniff ==
  /\ pc = "sniff"
  /\ dimensions = Unset
  /\ dimensions' = getImageDimensions(buffer)
  /\ UNCHANGED <<pipeline, urls, batchSize, pc, i, results, item, batches, faultsLeft,
                 remote, buffer, pauses, summary, report, exitCode>>

SpecSniff == InitSniff /\ [][Sniff]_vars

(***************************************************************************)
(* Properties of the sniffer, checked under SpecSniff.                      *)
(***************************************************************************)
Sniffed == pc = "sniff" /\ dimensions # Unset

\* {width, height}, both integers in 0..2^32-1
IsUnsignedDimensions(d) ==
  /\ DOMAIN d = {"width", "height"}
  /\ \A f \in {"width", "height"} :
       /\ DOMAIN d[f] = {"hi", "lo"}
       /\ d[f].hi \in 0..65535
       /\ d[f].lo \in 0..65535

\* C8: getImageDimensions is total.  For every buffer, of any length, it
\* returns either {width, height} with unsigned integer values or null, never
\* an error; for a buffer that begins with neither FF D8 nor the PNG signature
\* it returns null.
C8_SniffTotal ==
  Sniffed =>
    /\ dimensions = null \/ IsUnsignedDimensions(dimensions)
    /\ ~HasJpegSignature(buffer) /\ ~HasPngSignature(buffer) => dimensions = null

\* C8 witness: a read past the end of a truncated PNG raised an error inside
\* the function and the caller got null.
C8_Witness ==
  /\ Sniffed
  /\ SniffBody(buffer).kind = "throw"
  /\ dimensions = null

\* The 32-bit big-endian field at byte offset off, as two 16-bit halves.
FieldAt(b, off) ==
  [hi |-> ByteAt(b, off) * 256 + ByteAt(b, off + 1),
   lo |-> ByteAt(b, off + 2) * 256 + ByteAt(b, off + 3)]

\* C10: for a buffer of at least 24 bytes that starts with the PNG signature,
\* the result's width is the big-endian 32-bit integer at byte offset 16 and
\* its height the one at offset 20, both unsigned (no sign extension when the
\* top bit is set), whatever the bytes at offsets 8..15 are.
C10_PngFields ==
  Sniffed /\ HasPngSignature(buffer) /\ BufLength(buffer) >= 24 =>
    /\ IsUnsignedDimensions(dimensions)
    /\ dimensions.width = FieldAt(buffer, 16)
    /\ dimensions.height = FieldAt(buffer, 20)

\* C10 witness: a PNG whose first chunk is not an IHDR and whose width field
\* has its top bit set, read as a value of 2^31 or more.
C10_Witness ==
  /\ Sniffed /\ HasPngSignature(buffer) /\ BufLength(buffer) >= 24
  /\ ByteAt(buffer, 12) # 73
  /\ ByteAt(buffer, 16) >= 128
  /\ IsUnsignedDimensions(dimensions)
  /\ dimensions.width.hi >= 32768
  /\ dimensions.height # dimensions.width

(***************************************************************************)
(* A reference JPEG header parser (ITU-T T.81, B.1.1): from the start of    *)
(* image it walks the marker segments by their declared lengths, skips fill *)
(* bytes (any number of FF before a marker code) and the markers that stand *)
(* alone (TEM, RSTn), and reads the first SOF0-SOF3 frame header that lies  *)
(* wholly inside the buffer.  null when there is none.                      *)
(***************************************************************************)
RECURSIVE RefJpegScan(_, _)
RefJpegScan(b, offset) ==
  IF offset + 2 > BufLength(b) \/ ByteAt(b, offset) # 255 THEN null
  ELSE LET marker == ByteAt(b, offset + 1) IN
    IF marker = 255 THEN RefJpegScan(b, offset + 1)
    ELSE IF marker = 1 \/ marker \in 208..215 THEN RefJpegScan(b, offset + 2)
    ELSE IF marker \in {0, 216, 217, 218} \/ offset + 4 > BufLength(b) THEN null
    ELSE LET length == ByteAt(b, offset + 2) * 256 + ByteAt(b, offset + 3) IN
      IF length < 2 \/ offset + 2 + length > BufLength(b) THEN null
      ELSE IF marker \in 192..195
        THEN IF length < 8 THEN null
             ELSE [width |-> Wide(0, ByteAt(b, offset + 7) * 256 + ByteAt(b, offset + 8)),
                   height |-> Wide(0, ByteAt(b, offset + 5) * 256 + ByteAt(b, offset + 6))]
        ELSE RefJpegScan(b, offset + 2 + length)

RefJpeg(b) == IF HasJpegSignature(b) THEN RefJpegScan(b, 2) ELSE null

\* C9: for a buffer starting with FF D8 that contains a valid SOF0-SOF3
\* segment, getImageDimensions returns the width and height the reference
\* parser returns.
C9_JpegAgreesWithReference ==
  Sniffed /\ HasJpegSignature(buffer) /\ RefJpeg(buffer) # null =>
    dimensions = RefJpeg(buffer)

\* C9, where the code and the reference parser do agree: headers in which no
\* fill byte and no marker without a length field precedes the frame header.
RECURSIVE PlainSegmentsOnly(_, _)
PlainSegmentsOnly(b, offset) ==
  IF offset + 4 > BufLength(b) \/ ByteAt(b, offset) # 255 THEN FALSE
  ELSE LET marker == ByteAt(b, offset + 1)
           length == ByteAt(b, offset + 2) * 256 + ByteAt(b, offset + 3)
       IN IF marker \in 192..195 THEN TRUE
          ELSE IF marker = 255 \/ marker = 1 \/ marker \in 208..215 THEN FALSE
          ELSE PlainSegmentsOnly(b, offset + 2 + length)

C9_AgreesOnPlainHeaders ==
  Sniffed /\ HasJpegSignature(buffer) /\ RefJpeg(buffer) # null
    /\ PlainSegmentsOnly(buffer, 2) =>
      dimensions = RefJpeg(buffer)

C9_PlainWitness ==
  /\ Sniffed /\ HasJpegSignature(buffer) /\ RefJpeg(buffer) # null
  /\ PlainSegmentsOnly(buffer, 2)
  /\ ByteAt(buffer, 3) = 219
  /\ dimensions = RefJpeg(buffer)
  /\ dimensions.width # dimensions.height

(***************************************************************************)
(* Properties of one image item, checked under SpecItem.                    *)
(***************************************************************************)
\* the 'end' handler of item k has run on a payload
Ended(k) == item[k].body # NoBody

PayloadSize(k) == BufLength(Body(item[k].body))

\* C6 as amended: a payload smaller than the minimum size gives a result with
\* success:false; when the transfer ended before the timeout timer fired, the
\* error is "Image trop petite (<size> bytes)", which names the payload's own
\* size.
C6_TooSmallNamesSize ==
  \A k \in Items :
    Ended(k) /\ PayloadSize(k) < MIN_FILE_SIZE =>
      /\ Settled(k)
      /\ ~item[k].result.success
      /\ item[k].timer # "fired" =>
           item[k].result.error =
             <<"Image trop petite (", ToString(PayloadSize(k)), " bytes)">>

\* C6 witness: a 5KB payload was received in time and refused.
C6_Witness ==
  \E k \in Items :
    /\ Ended(k) /\ PayloadSize(k) = 5120
    /\ item[k].timer = "cleared" /\ item[k].pos = "closed"
    /\ Settled(k) /\ ~item[k].result.success
    /\ item[k].result.error = <<"Image trop petite (", "5120", " bytes)">>

\* C6 as stated: a payload smaller than the minimum size gives a result with
\* success:false and an error citing the minimum-size threshold, 10000 bytes
\* (here for the transfers that ended before the timeout timer fired).
C6_TooSmallCitesThreshold ==
  \A k \in Items :
    Ended(k) /\ PayloadSize(k) < MIN_FILE_SIZE =>
      /\ Settled(k)
      /\ ~item[k].result.success
      /\ item[k].timer # "fired" =>
           Includes(item[k].result.error, ToString(MIN_FILE_SIZE))

\* C7: a 200 answer with an image content type and a body of at least 10000
\* bytes that is a valid JPEG declaring W x H gives a result with success:true,
\* format '.jpg' and dimensions {width: W, height: H} (here for a URL whose
\* path ends in .jpg, content type image/jpeg, and a transfer completed and
\* written before the timeout timer fired).
C7_ValidJpegResult ==
  \A k \in Items :
    /\ item[k].file = "written" /\ item[k].timer # "fired"
    /\ Includes(Pathname(item[k].url), ".jpg") /\ item[k].contentType = ImageJpeg
    /\ PayloadSize(k) >= MIN_FILE_SIZE
    /\ RefJpeg(Body(item[k].body)) # null
    => /\ Settled(k)
       /\ item[k].result.success
       /\ item[k].result.format = ".jpg"
       /\ item[k].result.dimensions = RefJpeg(Body(item[k].body))

(***************************************************************************)
(* Further properties of the sniffer, checked under SpecSniff.              *)
(***************************************************************************)
\* an SOF0-SOF3 marker, FF followed by C0..C3, stands somewhere in the buffer
HasSofMarker(b) ==
  \E k \in 0..(BufLength(b) - 2) : ByteAt(b, k) = 255 /\ IsSofMarker(ByteAt(b, k + 1))

\* C11: for a buffer with the JPEG signature and no SOF0-SOF3 marker before
\* its end, getImageDimensions returns null, raises no error inside, and the
\* scan reads no byte index outside 0..length-1.
C11_NoSofNoResult ==
  Sniffed /\ HasJpegSignature(buffer) /\ ~HasSofMarker(buffer) =>
    /\ dimensions = null
    /\ SniffBody(buffer).kind # "throw"
    /\ JpegReads(buffer, 2) \subseteq 0..(BufLength(buffer) - 1)

\* C11 witness: a JPEG header without frame header whose scan went through
\* at least two segments and stopped within 8 bytes of the end.
C11_Witness ==
  /\ Sniffed /\ HasJpegSignature(buffer) /\ ~HasSofMarker(buffer)
  /\ BufLength(buffer) >= 12
  /\ Cardinality(JpegReads(buffer, 2)) >= 8
  /\ dimensions = null

\* C12: for a buffer that starts with the PNG signature but is shorter than
\* 24 bytes, getImageDimensions returns null, neither dimensions nor an
\* error.
C12_TruncatedPng ==
  Sniffed /\ HasPngSignature(buffer) /\ BufLength(buffer) < 24 =>
    dimensions = null

\* C12 witness: a PNG cut inside its height field, after the whole width
\* field.
C12_Witness ==
  /\ Sniffed /\ HasPngSignature(buffer)
  /\ BufLength(buffer) >= 20 /\ BufLength(buffer) < 24
  /\ dimensions = null

(***************************************************************************)
(* Properties of the video pipeline's file handling, checked under Spec.    *)
(***************************************************************************)
\* C13: in the video pipeline a failure to open or write an item's file is
\* recovered locally whenever the file error comes, also before the response
\* callback has run: the process goes on, and the item's result is
\* success:false with the file error as its reason (unless the item had
\* timed out before).
C13_FileErrorRecovered ==
  pipeline = "video" =>
    /\ pc # "crashed"
    /\ \A k \in Items :
         item[k].file = "removed" =>
           /\ Settled(k)
           /\ ~item[k].result.success
           /\ item[k].timer # "fired" => item[k].result.error \in FileErrors

\* C13, the ordering the code does handle: a file error that comes after the
\* response callback has accepted a 200 response.
C13_HandledAfterResponse ==
  pipeline = "video" =>
    \A k \in Items :
      item[k].file = "removed" =>
        /\ Settled(k)
        /\ ~item[k].result.success
        /\ item[k].timer # "fired" => item[k].result.error \in FileErrors

\* a file error was handled and the run has returned
C13_HandledWitness ==
  /\ pipeline = "video" /\ Returned
  /\ \E k \in Items :
       /\ item[k].file = "removed" /\ item[k].timer = "cleared"
       /\ ~item[k].result.success /\ item[k].result.error \in FileErrors

(***************************************************************************)
(* The run as main sees it, checked under Spec.                             *)
(***************************************************************************)
\* the run was rejected before anything was started or produced
Aborted ==
  /\ pc = "rejected"
  /\ \A k \in Items : ~Started(k) /\ ~Settled(k)
  /\ batches = <<>> /\ results = <<>> /\ summary = Unset
  /\ report.state = "none"
  /\ CalledFromMain => exitCode = 1

\* C14: a failure to create the download directory aborts the run: the run is
\* rejected, no item's check or transfer is started, no results are returned,
\* main writes no report and ends the process with status 1, and nothing
\* happens afterwards.
C14_MkdirFailureAborts ==
  [][/\ (pc = "mkdir" /\ faultsLeft' < faultsLeft) => Aborted'
     /\ pc # "rejected"]_vars

C14_Witness == Aborted /\ CalledFromMain /\ Len(urls) > batchSize

\* C15: the pause is taken after every batch but the last, whatever the
\* batch's items produced: the k-th pause follows the k-th batch, a batch
\* other than the first starts only out of a pause, and a run of ceil(N/B)
\* batches has ceil(N/B) - 1 pauses when it returns, none after the last
\* batch.
C15_PauseBetweenBatches ==
  /\ \A k \in 1..Len(pauses) : k <= Len(batches) /\ pauses[k] = batches[k][1]
  /\ pc = "pause" => Len(pauses) = Len(batches) /\ i + batchSize < Len(urls)
  /\ pc = "batch" => Len(pauses) = Len(batches) - 1
  /\ Returned =>
       /\ Len(batches) = CeilDiv(Len(urls), batchSize)
       /\ Len(pauses) = IF Len(batches) = 0 THEN 0 ELSE Len(batches) - 1

C15_Witness ==
  /\ Returned /\ Len(batches) = 3 /\ Len(pauses) = 2
  /\ ~results[1].success /\ results[2].success

\* the path item k's transfer was given: in the image pipeline the .tmp name
\* until the response's headers are known, then the name with the detected
\* format
Destination(k) ==
  IF pipeline = "video" THEN VideoFilename(item[k])
  ELSE ImageFilename(item[k],
         IF item[k].contentType = "" THEN ".tmp"
         ELSE detectImageFormat(item[k].url, item[k].contentType))

TransferStarted(k) == item[k].timer # "none"

\* C16: no two items of a run are given the same destination path, in one
\* batch or in different batches, also when they have the same URL: the
\* paths of any two transfers differ, and so do the file names of any two
\* successful results.
C16_DestinationsDiffer ==
  \A k, m \in Items :
    k # m =>
      /\ TransferStarted(k) /\ TransferStarted(m) => Destination(k) # Destination(m)
      /\ Settled(k) /\ Settled(m) /\ item[k].result.success /\ item[m].result.success
           => item[k].result.filename # item[m].result.filename

C16_Witness ==
  \E k, m \in Items :
    /\ k # m /\ item[k].url = item[m].url /\ BatchOf(k) = BatchOf(m)
    /\ Settled(k) /\ Settled(m) /\ item[k].result.success /\ item[m].result.success

\* the sum of the counts of a formatStats table over the formats in D
RECURSIVE SumStats(_, _)
SumStats(stats, D) ==
  IF D = {} THEN 0
  ELSE LET f == CHOOSE g \in D : TRUE IN stats[f] + SumStats(stats, D \ {f})

SummaryConsistent ==
  /\ summary.totalUrls = Len(urls)
  /\ summary.successful = Cardinality({k \in 1..Len(results) : results[k].success})
  /\ summary.failed = Cardinality({k \in 1..Len(results) : ~results[k].success})
  /\ summary.successful + summary.failed = summary.totalUrls
  /\ pipeline = "image" =>
       SumStats(summary.formatStats, DOMAIN summary.formatStats) = summary.successful

\* C17: the summary exists when the run has returned and not before, which
\* is after every batch has completed (all N results pushed, every item settled); it
\* agrees with the results list in totalUrls, successful and failed, which
\* add up to totalUrls, and in the image pipeline its per-format counts add
\* up to successful; once computed it never changes.
C17_SummaryOnceAndConsistent ==
  /\ [](Returned => summary # Unset)
  /\ [](pc \in {"mkdir", "batch", "pause", "rejected"} => summary = Unset)
  /\ [](summary # Unset =>
         /\ Len(results) = Len(urls) /\ \A k \in Items : Settled(k)
         /\ Len(batches) = CeilDiv(Len(urls), batchSize)
         /\ SummaryConsistent)
  /\ [][summary # Unset => summary' = summary]_vars

C17_Witness ==
  /\ Returned /\ pipeline = "image" /\ Len(batches) = 2
  /\ summary.successful = 2 /\ summary.failed = 1
  /\ DOMAIN summary.formatStats = {".jpg", ".png"}

(***************************************************************************)
(* The report of main, checked under SpecLive: runs on a non-empty list in  *)
(* which the directory is created and every write succeeds.                 *)
(***************************************************************************)
\* what a report holds once its write was issued: the summary and the N
\* results in input order, of a run whose batches have all completed
ReportComplete ==
  /\ Returned /\ Len(batches) = CeilDiv(Len(urls), batchSize)
  /\ report.data = [summary |-> summary, results |-> results]
  /\ Len(report.data.results) = Len(urls)
  /\ \A k \in 1..Len(urls) :
       report.data.results[k].url = urls[k] /\ report.data.results[k].index = k

\* C18, the part that holds: the report is written at most once and only
\* after all batches have completed, with the summary and all N results in
\* input order; its content never changes once the write was issued.
C18_ReportOnlyAfterBatches ==
  /\ [](report.state # "none" => ReportComplete)
  /\ [][/\ report.state # "none" => report'.data = report.data
        /\ report.state = "written" => report' = report]_vars

C18_Witness == report.state = "written" /\ Len(report.data.results) > 1

\* C18: on a run with a non-empty list that does not abort, main writes the
\* report exactly once, only after all batches have completed, with the
\* summary and all N results in input order.
C18_ReportWrittenOnce ==
  /\ [](report.state # "none" => ReportComplete)
  /\ [][report.state = "written" => report' = report]_vars
  /\ <>(report.state = "written")

(***************************************************************************)
(* Sniffing inside a download, checked under SpecItem.                      *)
(***************************************************************************)
\* the payload of item k has an acceptable size and the sniffer finds no
\* dimensions in it
Unparseable(k) ==
  /\ Ended(k) /\ ~TooSmall(PayloadSize(k))
  /\ getImageDimensions(Body(item[k].body)) = null

\* C19: a payload of acceptable size, received with status 200 and an image
\* content type, whose bytes the sniffer cannot parse never fails for that:
\* once its file is written the download has ended, and if the timer had not
\* fired before the result is success:true with dimensions null; the only
\* failures such an item can have are the timeout and the file write's error.
C19_SniffingNeverFails ==
  \A k \in Items :
    Unparseable(k) =>
      /\ item[k].file = "written" =>
           /\ Settled(k)
           /\ item[k].timer # "fired" =>
                item[k].result.success /\ item[k].result.dimensions = null
      /\ Settled(k) /\ ~item[k].result.success =>
           item[k].result.error \in {TimeoutMessage} \cup FileErrors
      /\ item[k].pos = "closed" => Settled(k)

C19_Witness ==
  \E k \in Items :
    /\ Unparseable(k) /\ item[k].body = "Gif600" /\ item[k].file = "written"
    /\ item[k].result.success /\ item[k].result.dimensions = null

(***************************************************************************)
(* The validity check before the transfer, checked under Spec.              *)
(***************************************************************************)
CheckAnswered(k) == item[k].urlCheck # Unset

\* the check of item k reported a connection error, a status other than 200,
\* a content type that is not an image, or a declared size below the minimum
\* (the last two in the image pipeline only)
CheckRefused(k) ==
  LET c == item[k].urlCheck IN
  IF pipeline = "video" THEN ~c.isValid
  ELSE \/ c.statusCode # 200
       \/ ~StartsWith(TypeParts(c.contentType), "image/")
       \/ (c.size > 0 /\ c.size < MIN_FILE_SIZE)

\* C20: the transfer of an item is started only after its validity check has
\* answered; while the check is in flight the item has no transfer, no timer
\* and no file, and an item whose check was refused never has them: it ends
\* at once with a failure result.
C20_TransferOnlyAfterCheck ==
  \A k \in Items :
    /\ item[k].pos \in {"idle", "head"} =>
         ~CheckAnswered(k) /\ ~TransferStarted(k) /\ item[k].file = "none"
    /\ item[k].pos \notin {"idle", "head"} => CheckAnswered(k)
    /\ CheckAnswered(k) /\ CheckRefused(k) =>
         /\ ~TransferStarted(k) /\ item[k].file = "none" /\ item[k].pos = "closed"
         /\ item[k].contentType = "" /\ item[k].body = NoBody
         /\ Settled(k) /\ ~item[k].result.success

C20_Witness ==
  \E k, m \in Items :
    /\ pipeline = "image"
    /\ CheckAnswered(k) /\ item[k].urlCheck.size = 5120 /\ Settled(k)
    /\ CheckAnswered(m) /\ ~CheckRefused(m) /\ item[m].file = "written"

(***************************************************************************)
(* The transfer's timer against its completion, checked under Spec.         *)
(***************************************************************************)
TimedOut(k) == Settled(k) /\ item[k].result = FailureResult(item[k], TimeoutMessage)

\* the timer and the outcome of every item agree: an armed timer belongs to
\* a transfer without an outcome, a fired timer to the timeout failure, and
\* a cancelled timer never to it
TimerAgreesWithOutcome ==
  \A k \in Items :
    /\ item[k].timer = "armed" => ~Settled(k)
    /\ item[k].timer = "fired" => TimedOut(k)
    /\ item[k].timer \in {"none", "cleared"} => ~TimedOut(k)

\* C21, the part that holds: in both orders of the timer and of the
\* transfer's end or failure, a timer that fires first gives the timeout
\* failure, an end or a handled failure that comes first cancels the timer,
\* which never fires afterwards, and an outcome once produced is never
\* replaced.
C21_TimerAgainstCompletion ==
  /\ []TimerAgreesWithOutcome
  /\ [][\A k \in Items :
          /\ Settled(k) => item'[k].result = item[k].result
          /\ item[k].timer \in {"fired", "cleared"} => item'[k].timer = item[k].timer]_vars

\* both orders in one run: one transfer timed out and completed later, one
\* completed in time
C21_Witness ==
  \E k, m \in Items :
    /\ TimedOut(k) /\ item[k].timer = "fired" /\ item[k].pos = "closed"
    /\ item[m].timer = "cleared" /\ Settled(m) /\ item[m].result.success

\* C21: in every interleaving the transfer yields exactly one outcome: the
\* timer and the outcome agree, and no started transfer is left without an
\* outcome with the process ended.
C21_ExactlyOneOutcome ==
  /\ TimerAgreesWithOutcome
  /\ \A k \in Items : TransferStarted(k) /\ pc = "crashed" => Settled(k)

(***************************************************************************)
(* The steps of the JPEG scan, checked under SpecSniff.                     *)
(***************************************************************************)
\* the big-endian 16-bit value at offset k of the buffer
FieldAt16(k) == ByteAt(buffer, k) * 256 + ByteAt(buffer, k + 1)

\* the scan from the loop variable's value offset goes on as the iteration
\* at offset says
ScanFollowsStep(offset) ==
  LET s == JpegStep(buffer, offset) IN
  JpegScan(buffer, offset) = IF s.kind = "next" THEN JpegScan(buffer, s.value) ELSE s

\* C22: on a buffer beginning FF D8 the scan starts at offset 2; an iteration
\* at an offset holding FF and then a marker C0..C3 returns height = the
\* 16-bit value at offset + 5 and width = the one at offset + 7; at FF and
\* any other marker it moves the offset on by the 16-bit length at
\* offset + 2, plus 2; at any other byte it moves on by one; and when no
\* iteration is left the scan has no result and null is returned.
C22_JpegScanSteps ==
  Sniffed /\ HasJpegSignature(buffer) =>
    /\ dimensions = getImageDimensions(buffer)
    /\ SniffBody(buffer) = (IF JpegScan(buffer, 2).kind = "next" THEN Return(null)
                            ELSE JpegScan(buffer, 2))
    /\ LET offsets == JpegOffsets(buffer, 2) IN
         /\ offsets[1] = 2
         /\ \A j \in 1..Len(offsets) :
              InLoop(buffer, offsets[j]) => ScanFollowsStep(offsets[j])
    /\ \A offset \in 2..BufLength(buffer) :
         IF offset < BufLength(buffer) - 8
           THEN IF ByteAt(buffer, offset) # 255
                  THEN JpegStep(buffer, offset) = [kind |-> "next", value |-> offset + 1]
                ELSE IF ByteAt(buffer, offset + 1) \in 192..195
                  THEN JpegStep(buffer, offset) =
                         Return([width |-> Wide(0, FieldAt16(offset + 7)),
                                 height |-> Wide(0, FieldAt16(offset + 5))])
                ELSE JpegStep(buffer, offset) =
                       [kind |-> "next", value |-> offset + FieldAt16(offset + 2) + 2]
           ELSE JpegScan(buffer, offset) = FallThrough

\* C22 witness: a scan that stepped over a stray byte and over a segment
\* and returned the fields of a frame header whose marker is not C0
C22_Witness ==
  /\ Sniffed /\ HasJpegSignature(buffer)
  /\ Len(JpegOffsets(buffer, 2)) >= 3
  /\ \E k \in 1..Len(JpegOffsets(buffer, 2)) :
       ByteAt(buffer, JpegOffsets(buffer, 2)[k]) # 255
  /\ LET last == JpegOffsets(buffer, 2)[Len(JpegOffsets(buffer, 2))] IN
       /\ ByteAt(buffer, last + 1) \in 193..195
       /\ dimensions = [width |-> Wide(0, FieldAt16(last + 7)),
                        height |-> Wide(0, FieldAt16(last + 5))]
       /\ dimensions.width # dimensions.height

\* C26: the JPEG scan ends on every buffer: an iteration that does not
\* return moves the offset forward, by 1 or by length + 2 >= 2 also when the
\* declared length is 0, so the offsets of the scan increase strictly and
\* there are at most buffer.length iterations.
C26_ScanTerminates ==
  Sniffed /\ HasJpegSignature(buffer) =>
    /\ \A offset \in 2..BufLength(buffer) :
         InLoop(buffer, offset) =>
           LET s == JpegStep(buffer, offset) IN
           s.kind = "next" =>
             IF ByteAt(buffer, offset) = 255 THEN s.value >= offset + 2
             ELSE s.value = offset + 1
    /\ LET offsets == JpegOffsets(buffer, 2) IN
       /\ \A j \in 1..(Len(offsets) - 1) : offsets[j] < offsets[j + 1]
       /\ Len(offsets) - 1 <= BufLength(buffer)

\* C26 witness: a scan that went over a segment of declared length 0 and
\* ended
C26_Witness ==
  /\ Sniffed /\ HasJpegSignature(buffer)
  /\ LET offsets == JpegOffsets(buffer, 2) IN
       \E j \in 1..(Len(offsets) - 1) :
         /\ ByteAt(buffer, offsets[j]) = 255
         /\ FieldAt16(offsets[j] + 2) = 0
         /\ offsets[j + 1] = offsets[j] + 2

(***************************************************************************)
(* Files against results in the image pipeline, checked under SpecItem.     *)
(***************************************************************************)
\* C23: no file is written for an item after its result has been produced:
\* an item that failed with the timeout reason never has its file written
\* by its transfer completing later, so a destination file exists for an
\* item if and only if its result has success:true.
C23_FileIffSuccess ==
  \A k \in Items :
    /\ item[k].file = "written" => Settled(k) /\ item[k].result.success
    /\ Settled(k) /\ item[k].result.success => item[k].file = "written"

\* C23, the part that holds: an item with success:true has its file, and a
\* file without success:true belongs to an item that timed out before its
\* transfer ended.
C23_FileUnlessTimedOut ==
  \A k \in Items :
    /\ Settled(k) /\ item[k].result.success => item[k].file = "written"
    /\ item[k].file = "written" =>
         /\ Settled(k)
         /\ ~item[k].result.success =>
              item[k].timer = "fired" /\ item[k].result.error = TimeoutMessage

\* the run has returned, one item succeeded with its file and another timed
\* out and has its file too
C23_Witness ==
  /\ Returned
  /\ \E k, m \in Items :
       /\ item[k].result.success /\ item[k].file = "written"
       /\ Settled(m) /\ ~item[m].result.success /\ item[m].file = "written"

(***************************************************************************)
(* Files against results in the video pipeline, checked under Spec.         *)
(***************************************************************************)
\* C24: in the video pipeline an item whose result is success:false leaves
\* no destination file behind: the file created for it was removed, or was
\* never created.
C24_FailureLeavesNoFile ==
  pipeline = "video" =>
    \A k \in Items :
      Settled(k) /\ ~item[k].result.success => item[k].file \in {"none", "removed"}

\* C24, the part that holds: no file was created for an item refused by the
\* validity check, and the file of an item that failed by a file error is
\* removed.
C24_NoFileAfterCheckOrFileError ==
  pipeline = "video" =>
    \A k \in Items :
      Settled(k) /\ ~item[k].result.success =>
        /\ ~item[k].urlCheck.isValid => item[k].file = "none"
        /\ item[k].result.error \in FileErrors => item[k].file = "removed"

C24_Witness ==
  /\ pipeline = "video"
  /\ \E k, m \in Items :
       /\ Settled(k) /\ ~item[k].urlCheck.isValid /\ item[k].file = "none"
       /\ Settled(m) /\ ~item[m].result.success
       /\ item[m].result.error \in FileErrors /\ item[m].file = "removed"

(***************************************************************************)
(* The shape of the image pipeline's results, checked under SpecItem.       *)
(***************************************************************************)
SuccessShape(r) ==
  /\ DOMAIN r = {"url", "index", "success", "filename", "fileSize", "format", "dimensions",
                 "duration", "timestamp"}
  /\ r.fileSize >= MIN_FILE_SIZE
  /\ r.format \in {SUPPORTED_FORMATS[j] : j \in 1..Len(SUPPORTED_FORMATS)}

FailureShape(r) ==
  /\ DOMAIN r = {"url", "index", "success", "error", "duration", "timestamp"}
  /\ Len(r.error) > 0

\* C25: every DownloadResult of the image pipeline, of an item and in the
\* results list, is either success:true with filename, fileSize >= 10000 and
\* format (and dimensions, possibly null) and no error, or success:false with
\* a non-empty error and none of those; both carry url, index, duration and
\* timestamp.
C25_ResultShapes ==
  /\ \A k \in Items :
       Settled(k) =>
         IF item[k].result.success THEN SuccessShape(item[k].result)
         ELSE FailureShape(item[k].result)
  /\ \A k \in 1..Len(results) :
       IF results[k].success THEN SuccessShape(results[k]) ELSE FailureShape(results[k])

\* a returned run with one result of each shape
C25_Witness ==
  /\ Returned /\ Len(results) = 2
  /\ results[1].success /\ results[1].fileSize = MIN_FILE_SIZE + Len(JpegHead(<<255>>))
  /\ ~results[2].success /\ results[2].error = TooSmallMessage(5120)

(***************************************************************************)
(* The status codes accepted, checked under SpecStatus.                     *)
(***************************************************************************)
\* the file of item k is marked as downloaded: written (image) or complete
\* and reported (video)
MarkedDownloaded(k) ==
  Settled(k) /\ item[k].result.success /\ item[k].file \in {"written", "complete"}

\* C27: only status 200 is accepted: an item ends with success:true only if
\* its validity check and its transfer both answered 200, and an item that
\* was answered any other status, at either step, has a result with
\* success:false at once, gets no further request and has no file marked as
\* downloaded.
C27_OnlyStatus200 ==
  \A k \in Items :
    /\ Settled(k) /\ item[k].result.success => item[k].statuses = <<200, 200>>
    /\ (\E j \in 1..Len(item[k].statuses) : item[k].statuses[j] # 200) =>
         /\ Settled(k) /\ ~item[k].result.success
         /\ ~MarkedDownloaded(k)
         /\ item[k].statuses[Len(item[k].statuses)] # 200
         /\ item[k].pos \in {"closed", "dropped"}

\* a run in which one item was downloaded, one was answered another 2xx code
\* by its transfer
C27_Witness ==
  \E k, m \in Items :
    /\ MarkedDownloaded(k) /\ item[k].statuses = <<200, 200>>
    /\ item[m].statuses = <<200, 206>> /\ ~item[m].result.success
====
